---- MODULE Spec2Model ----
(***************************************************************************)
(* The TOTP viewer of qrcode-viewer: the otpauth URI parser, the code      *)
(* derivation and countdown of utils/totp, and the ValueDisplay component  *)
(* that shows a live code next to a stored value; the Storage utility that *)
(* keeps the scanned records in localStorage; and the handlers of App that *)
(* scan, add, edit, delete and import records.                             *)
(*                                                                         *)
(* Time is the wall clock of Date.now(), in milliseconds.  A string is     *)
(* modelled by the parts the code inspects: what it starts with, whether   *)
(* new URL() accepts it, its path label and its query parameters; a secret *)
(* is a sequence of one-character strings.  The HMAC digest of otplib is   *)
(* an uninterpreted function of the decoded key and the counter.           *)
(***************************************************************************)
EXTENDS Integers, Sequences, FiniteSets, TLC

VARIABLES
  now,            \* Date.now(), in ms
  mounted,        \* whether the ValueDisplay instance is mounted
  value,          \* the value prop
  totpCode,       \* useState: the displayed code, ValueDisplay.tsx:26
  timeRemaining,  \* useState: the displayed countdown, ValueDisplay.tsx:27
  timers,         \* the live setInterval registrations of this instance
  nextId,         \* the next interval id setInterval hands out
  cleanup,        \* the interval id the last effect's cleanup clears, or NoCleanup
  changes,        \* history: how many times the instance was given a value
  lateTicks,      \* history: how many ticks fired late
  faults,         \* history: how many times the digest step threw
  codeReadAt,     \* history: the clock read the displayed code was derived at
  remReadAt,      \* history: the clock read the displayed countdown was computed at
  last,           \* history: the last operation and what it did
  urlImpl,        \* the URL implementation of the runtime the build is loaded in
  uri,            \* the string handed to parseTotpUri by a caller of utils/totp
  parsed,         \* what that call of parseTotpUri returned, once it has returned
  calls,          \* history: the calls of generateTotpCode by a caller of utils/totp
  stored,         \* localStorage: the item under the key qrCodes, or NoItem
  returned,       \* the list the last call of Storage returned
  lastCall,       \* history: the last call of Storage, its arguments, the list
                  \* stored before it, and whether its setItem succeeded
  writeFaults,    \* history: how many times localStorage.setItem threw
  file,           \* the file the last export downloaded, or NoFile
  qrCodes,        \* useState of App: the displayed list
  editingId,      \* useState of App: the id in edit mode, or NoId
  editDescription, \* useState of App: the description being typed
  isImporting,    \* useState of App: the importing flag
  reading         \* the file a FileReader of handleImport is reading, or NoFile

\* the callers of utils/totp other than the display, and the runtime
utilVars == <<urlImpl, uri, parsed, calls>>

\* the record store
storeVars == <<stored, returned, lastCall, writeFaults, file>>

\* the state of App
appVars == <<qrCodes, editingId, editDescription, isImporting, reading>>

vars == <<now, mounted, value, totpCode, timeRemaining, timers, nextId, cleanup,
          changes, lateTicks, faults, codeReadAt, remReadAt, last, utilVars,
          storeVars, appVars>>

(***************************** bounds **************************************)
\* the clock stops the model here
MaxNow == 31001
\* the clock stops the model of a single long-lived display here
MaxNowLong == 61001
\* the instance is given a value (on mount or by a prop change) at most this often
MaxChanges == 3
\* at most this many ticks fire late
MaxLate == 2
\* the digest step throws at most this many times
MaxFaults == 2
\* a caller of utils/totp calls generateTotpCode at most this many times
MaxCalls == 3
\* the store holds at most this many records
MaxStored == 3
\* localStorage.setItem throws at most this many times
MaxWriteFaults == 1
MaxImported == 2        \* entries of an imported array
MaxAppNow == 3          \* the clock of App stops here

(************************* program constants *******************************)
\* otplib's default step, and the 30 of getTimeRemaining
Period == 30
\* Date.now() / 1000
MsPerSecond == 1000
\* setInterval(..., 1000)
Interval == 1000
\* epoch: Date.now() + (next ? 30000 : 0)
NextOffset == 30000
\* useState(30)
InitialTimeRemaining == 30

(******************************* strings ***********************************)
Base32Letters ==
  {"A","B","C","D","E","F","G","H","I","J","K","L","M",
   "N","O","P","Q","R","S","T","U","V","W","X","Y","Z"}
Base32Digits == {"2","3","4","5","6","7"}
Base32Alphabet == Base32Letters \cup Base32Digits

LowerCase == <<"a","b","c","d","e","f","g","h","i","j","k","l","m",
               "n","o","p","q","r","s","t","u","v","w","x","y","z">>
UpperCase == <<"A","B","C","D","E","F","G","H","I","J","K","L","M",
               "N","O","P","Q","R","S","T","U","V","W","X","Y","Z">>

\* String.prototype.toUpperCase on one character
ToUpperChar(c) ==
  IF \E i \in 1..Len(LowerCase) : LowerCase[i] = c
  THEN UpperCase[CHOOSE i \in 1..Len(LowerCase) : LowerCase[i] = c]
  ELSE c

ToUpperCase(s) == [i \in 1..Len(s) |-> ToUpperChar(s[i])]

\* the string without its trailing "=" padding
RECURSIVE StripPadding(_)
StripPadding(s) ==
  IF Len(s) > 0 /\ s[Len(s)] = "="
  THEN StripPadding(SubSeq(s, 1, Len(s) - 1))
  ELSE s

\* String.prototype.substring(n): the string from index n (0-based) on
Substring(s, n) == IF n >= Len(s) THEN <<>> ELSE SubSeq(s, n + 1, Len(s))

HexDigits ==
  {"0","1","2","3","4","5","6","7","8","9",
   "A","B","C","D","E","F","a","b","c","d","e","f"}

\* the character a percent-escape of the model's inputs stands for
EscapedChar(h1, h2) ==
  CASE ToUpperChar(h1) = "4" /\ ToUpperChar(h2) = "0" -> "@"
    [] ToUpperChar(h1) = "3" /\ ToUpperChar(h2) = "A" -> ":"
    [] ToUpperChar(h1) = "2" /\ ToUpperChar(h2) = "0" -> " "
    [] OTHER -> "?"

\* whether decodeURIComponent throws URIError: a "%" without two hex digits
MalformedEscape(s) ==
  \E i \in 1..Len(s) :
    /\ s[i] = "%"
    /\ ~(i + 2 <= Len(s) /\ s[i + 1] \in HexDigits /\ s[i + 2] \in HexDigits)

RECURSIVE DecodeFrom(_, _)
DecodeFrom(s, i) ==
  IF i > Len(s) THEN <<>>
  ELSE IF s[i] = "%"
       THEN <<EscapedChar(s[i + 1], s[i + 2])>> \o DecodeFrom(s, i + 3)
       ELSE <<s[i]>> \o DecodeFrom(s, i + 1)

\* decodeURIComponent of a string that has no malformed escape
DecodeURIComponent(s) == DecodeFrom(s, 1)

(*************************** displayed values ******************************)
\* A string value: head is what it starts with, wellFormed whether new URL()
\* accepts it, label the path segment after the head, params the query string.
TotpHead == "otpauth://totp/"

MkValue(head, wellFormed, label, params) ==
  [head |-> head, wellFormed |-> wellFormed, label |-> label, params |-> params]

MkParam(name, val) == [name |-> name, val |-> val]

\* otpauth://totp/a?secret=JB
UriA == MkValue(TotpHead, TRUE, <<"a">>, <<MkParam("secret", <<"J","B">>)>>)
\* otpauth://totp/b?secret=mz&issuer=x
UriB == MkValue(TotpHead, TRUE, <<"b">>,
                <<MkParam("secret", <<"m","z">>), MkParam("issuer", <<"x">>)>>)
\* otpauth://totp/c?secret=J1 : "1" is not in the Base32 alphabet
UriBadSecret == MkValue(TotpHead, TRUE, <<"c">>, <<MkParam("secret", <<"J","1">>)>>)
\* otpauth://totp/foo : no secret parameter
UriNoSecret == MkValue(TotpHead, TRUE, <<"f","o","o">>, <<>>)
\* a plain scanned text
PlainText == MkValue("", FALSE, <<>>, <<>>)
\* the value slot of an instance that is not mounted
NoValue == MkValue("", FALSE, <<"-">>, <<>>)

DisplayValues == {UriA, UriB, UriBadSecret, UriNoSecret, PlainText}

(****************************** utils/totp *********************************)
\* a lookup that returns the first parameter, whatever its name
SearchGetFirst(params, name) ==
  IF params = <<>> THEN [present |-> FALSE, val |-> <<>>]
  ELSE [present |-> TRUE, val |-> Head(params).val]

\* URLSearchParams.get: the first value of that name, or null
RECURSIVE SearchGet(_, _)
SearchGet(params, name) ==
  IF params = <<>> THEN [present |-> FALSE, val |-> <<>>]
  ELSE IF Head(params).name = name THEN [present |-> TRUE, val |-> Head(params).val]
       ELSE SearchGet(Tail(params), name)

\* a test that takes only null for false, not the empty string
FalsyNullOnly(x) == ~x.present

\* !x for x a string or null: null and the empty string are falsy
Falsy(x) == ~x.present \/ x.val = <<>>

\* The URL implementations a build meets.  otpauth is not a special scheme: the
\* URL Standard (Node, Firefox, Safari, Chrome from 130) parses "totp" as the
\* host and "/<label>" as the path; Chrome before 130 kept everything between
\* the scheme and the query as an opaque path, "//totp/<label>".
UrlImpls == {"whatwg", "opaque"}

\* url.pathname of otpauth://totp/<label>?... as given to new URL(), by url
PathnameOf(url, u) ==
  IF url = "whatwg" THEN <<"/">> \o u.label
  ELSE <<"/", "/", "t", "o", "t", "p", "/">> \o u.label

\* url.pathname in the runtime the build is loaded in
Pathname(u) == PathnameOf(urlImpl, u)

NullTotpData == [ok |-> FALSE, threw |-> FALSE, secret |-> <<>>, label |-> <<>>,
                 hasIssuer |-> FALSE, issuer |-> <<>>]

\* an exception that leaves parseTotpUri
ThrownTotpData == [NullTotpData EXCEPT !.threw = TRUE]

\* The try block of parseTotpUri: new URL() throws on a string it rejects, and
\* decodeURIComponent on a malformed escape.  The values of params are the
\* decoded values URLSearchParams hands out.
parseTotpUriTry(u) ==
  IF u.head # TotpHead THEN NullTotpData
  ELSE IF ~u.wellFormed THEN ThrownTotpData
  ELSE LET secret == SearchGet(u.params, "secret")
           path   == Substring(Pathname(u), 7)
           issuer == SearchGet(u.params, "issuer")
       IN  IF Falsy(secret) THEN NullTotpData
           ELSE IF MalformedEscape(path) THEN ThrownTotpData
           ELSE [ok |-> TRUE, threw |-> FALSE, secret |-> secret.val,
                 label |-> DecodeURIComponent(path),
                 hasIssuer |-> ~Falsy(issuer),
                 issuer |-> IF Falsy(issuer) THEN <<>> ELSE issuer.val]

\* parseTotpUri without its try/catch: the exception escapes
parseTotpUriUncaught(u) == parseTotpUriTry(u)

\* catch (error) { console.error(...); return null; }
parseTotpUri(u) ==
  LET r == parseTotpUriTry(u)
  IN  IF r.threw THEN NullTotpData ELSE r

\* keyDecoder of @otplib/plugin-base32-enc-dec: upper-cases, drops the padding,
\* and throws on a character outside the RFC 4648 alphabet
keyDecoder(secret) ==
  LET s == StripPadding(ToUpperCase(secret))
  IN  IF \A i \in 1..Len(s) : s[i] \in Base32Alphabet
      THEN [ok |-> TRUE, key |-> s]
      ELSE [ok |-> FALSE, key |-> <<>>]

\* the values of a code: null, the literal "Error", a thrown exception, or the
\* digits derived from a key and a counter
Null == [kind |-> "null", key |-> <<>>, counter |-> 0]
ErrorMarker == [kind |-> "Error", key |-> <<>>, counter |-> 0]
Thrown == [kind |-> "throw", key |-> <<>>, counter |-> 0]
Digits(key, counter) == [kind |-> "digits", key |-> key, counter |-> counter]

\* a counter that rounds the seconds to the nearest instead of down
TimeStepRounded(epoch) == ((epoch + 500) \div MsPerSecond) \div Period

\* otplib totpCounter: Math.floor(epoch / step / 1000)
TimeStep(epoch) == (epoch \div MsPerSecond) \div Period

\* authenticator.generate(secret) under options {digits: 6, epoch}; digestFails
\* is an exception of the digest step
AuthenticatorGenerate(secret, epoch, digestFails) ==
  LET decoded == keyDecoder(secret)
  IN  IF ~decoded.ok \/ digestFails THEN Thrown
      ELSE Digits(decoded.key, TimeStep(epoch))

\* generateTotpCode without its try/catch: the exception escapes
generateTotpCodeUncaught(secret, next, t, digestFails) ==
  AuthenticatorGenerate(secret, t + (IF next THEN NextOffset ELSE 0), digestFails)

\* a generateTotpCode that ignores its next argument
generateTotpCodeCurrent(secret, next, t, digestFails) ==
  LET r == AuthenticatorGenerate(secret, t, digestFails)
  IN  IF r = Thrown THEN Null ELSE r

generateTotpCode(secret, next, t, digestFails) ==
  LET r == AuthenticatorGenerate(secret, t + (IF next THEN NextOffset ELSE 0),
                                 digestFails)
  IN  IF r = Thrown THEN Null ELSE r

\* the countdown its doc comment describes, "(0-29)": one less than the code returns
getTimeRemainingZeroBased(t) == (Period - 1) - ((t \div MsPerSecond) % Period)

getTimeRemaining(t) == Period - ((t \div MsPerSecond) % Period)

(***************************** ValueDisplay ********************************)
\* the instants the model starts at: two seconds, and one millisecond short of
\* one second, before the step boundary at 30 s
StartInstants == {28000, 28999}
\* the time between two reads of Date.now() inside one synchronous handler, in ms
ReadGaps == {0, 1}
\* how late a tick may fire, in ms: timer jitter, or one interval skipped
Lateness == {1, Interval}

NoCleanup == 0

Max(a, b) == IF a >= b THEN a ELSE b

isTotpUri(v) == v.head = TotpHead

\* a failed derivation that keeps the null instead of the error marker
CodeOrNull(code) == code

\* if (code) setTotpCode(code); else setTotpCode('Error');
CodeOrError(code) == IF code # Null THEN code ELSE ErrorMarker

\* an effect that leaves the code to the first tick
InitialCodeDeferred(code, secret, t, digestFails) == code

\* Generate initial code: the effect derives a code before it registers the timer;
\* code is the state it replaces
InitialCode(code, secret, t, digestFails) ==
  CodeOrError(generateTotpCode(secret, FALSE, t, digestFails))

\* the window test taken at the last second of a window instead of the first
IsNewWindowAtOne(newTimeRemaining) == newTimeRemaining = 1

\* if (newTimeRemaining === 30)
IsNewWindow(newTimeRemaining) == newTimeRemaining = Period

\* a clearInterval that releases nothing
ClearIntervalKeepsAll(ts, id) == ts

\* clearInterval(intervalId)
ClearInterval(ts, id) == {t \in ts : t.id # id}

\* an effect that returns no cleanup
RunCleanupNever(ts, id) == ts

\* the cleanup React runs before the next effect and on unmount
RunCleanup(ts, id) == IF id = NoCleanup THEN ts ELSE ClearInterval(ts, id)

\* setInterval(callback, 1000) at instant t; the callback closes over secret
SetInterval(id, secret, t) ==
  [id |-> id, secret |-> secret, due |-> t + Interval,
   regAt |-> t, fired |-> 0, regens |-> 0]

\* what the last operation did: the secret a tick closed over, whether it derived
\* a code and whether that failed, the code and countdown before it, and whether
\* a cleanup released a timer that had not fired yet
NoOp == [op |-> "init", secret |-> <<>>, regen |-> FALSE, failed |-> FALSE,
         before |-> Null, remBefore |-> 0, early |-> FALSE]

\* the code and the countdown the component renders, when it renders them
ShowsCode == mounted /\ isTotpUri(value) /\ totpCode # Null

\* The body of useEffect for value v, on the state (code, remaining) and the
\* registrations ts left by the cleanup.  gap is the time between the clock read
\* of generateTotpCode and that of getTimeRemaining.
Effect(v, code, remaining, ts, gap, digestFails) ==
  LET totpData == parseTotpUri(v)
  IN  IF ~isTotpUri(v) \/ ~totpData.ok
      THEN /\ totpCode' = code
           /\ timeRemaining' = remaining
           /\ timers' = ts
           /\ cleanup' = NoCleanup
           /\ now' = now
           /\ UNCHANGED <<nextId, codeReadAt, remReadAt>>
      ELSE /\ totpCode' = InitialCode(code, totpData.secret, now, digestFails)
           /\ timeRemaining' = getTimeRemaining(now + gap)
           /\ timers' = ts \cup {SetInterval(nextId, totpData.secret, now + gap)}
           /\ cleanup' = nextId
           /\ nextId' = nextId + 1
           /\ now' = now + gap
           /\ codeReadAt' = now
           /\ remReadAt' = now + gap

\* no display is mounted yet
DisplayIdle ==
  /\ mounted = FALSE
  /\ value = NoValue
  /\ totpCode = Null
  /\ timeRemaining = InitialTimeRemaining
  /\ timers = {}
  /\ nextId = 1
  /\ cleanup = NoCleanup
  /\ changes = 0
  /\ lateTicks = 0
  /\ faults = 0
  /\ codeReadAt = 0
  /\ remReadAt = 0
  /\ last = NoOp

\* what parseTotpUri returned, before it was called
NotParsed == [done |-> FALSE, res |-> NullTotpData]

\* no other caller of utils/totp is at work
UtilIdle ==
  /\ uri = NoValue
  /\ parsed = NotParsed
  /\ calls = <<>>

(******************************** Storage **********************************)
\* localStorage.getItem returns null: nothing was stored under the key
NoItem == [kind |-> "none", items |-> <<>>]

\* A JSON text is modelled by its kind (the text of an array, of a value that
\* is no array, or no JSON at all) and, for an array, by its entries: null, or an
\* object given by the properties it has and their values.
\* A number, as typeof tells it from the other values
Num(n) == [type |-> "number", val |-> n]

\* the value of a property an object does not have
Undefined == "undefined"
UndefinedNumber == [type |-> "undefined", val |-> 0]

\* the properties of a QRCodeData record
Fields == {"id", "value", "description", "timestamp", "format"}

\* a QRCodeData record
MkCode(id, val, description) ==
  [id |-> id, value |-> val, description |-> description,
   timestamp |-> Num(1), format |-> "qr_code"]

\* whether record r has property f
Has(r, f) == IF f = "timestamp" THEN r[f] # UndefinedNumber ELSE r[f] # Undefined

\* JSON.stringify of a record: the properties it has, with their values
ToJson(r) == [f \in {g \in Fields : Has(r, g)} |-> r[f]]

\* the object JSON.parse builds from an entry: a property the entry does not
\* have reads as undefined
FromJson(props) ==
  [f \in Fields |->
     IF f \in DOMAIN props THEN props[f]
     ELSE IF f = "timestamp" THEN UndefinedNumber ELSE Undefined]

\* an entry of a JSON array: an object, or null
JsonObject(props) == [null |-> FALSE, props |-> props]
JsonNull == [null |-> TRUE, props |-> <<>>]

\* JSON.stringify of an array of records
JSONstringify(codes) ==
  [kind |-> "array", items |-> [i \in 1..Len(codes) |-> JsonObject(ToJson(codes[i]))]]

\* a text that is no JSON, and the text of a JSON value that is no array
InvalidJson == [kind |-> "invalid", items |-> <<>>]
ObjectJson == [kind |-> "object", items |-> <<>>]

\* JSON.parse: throws on a text that is no JSON
JSONparse(text) ==
  [threw |-> text.kind = "invalid", isArray |-> text.kind = "array",
   items |-> text.items]

\* the records of a parsed array that has no null entry
Records(items) == [i \in 1..Len(items) |-> FromJson(items[i].props)]

\* Storage.saveQRCodes: the item stored afterwards; a throw of setItem (the quota
\* is exceeded, storage is disabled) is logged and the item stays as it was
saveQRCodes(item, codes, writeFails) ==
  IF writeFails THEN item ELSE JSONstringify(codes)

\* Storage.loadQRCodes; the item is only ever written by saveQRCodes
loadQRCodes(item) ==
  IF item = NoItem THEN <<>>
  ELSE IF JSONparse(item).threw THEN <<>>
  ELSE Records(JSONparse(item).items)

\* an addQRCode that puts the new record last
addQRCodeLast(item, code, writeFails) ==
  LET updatedCodes == loadQRCodes(item) \o <<code>>
  IN  [item |-> saveQRCodes(item, updatedCodes, writeFails), ret |-> updatedCodes]

\* Storage.addQRCode: the item stored afterwards and the list returned
addQRCode(item, code, writeFails) ==
  LET codes == loadQRCodes(item)
      updatedCodes == <<code>> \o codes
  IN  [item |-> saveQRCodes(item, updatedCodes, writeFails), ret |-> updatedCodes]

\* { ...code, ...updates }: updates is a set of <<field, value>> pairs
Merge(code, updates) ==
  [f \in DOMAIN code |->
     IF \E u \in updates : u[1] = f
     THEN (CHOOSE u \in updates : u[1] = f)[2]
     ELSE code[f]]

\* an updateQRCode that merges the updates into every record
updateQRCodeAll(item, id, updates, writeFails) ==
  LET codes == loadQRCodes(item)
      updatedCodes == [i \in 1..Len(codes) |-> Merge(codes[i], updates)]
  IN  [item |-> saveQRCodes(item, updatedCodes, writeFails), ret |-> updatedCodes]

\* Storage.updateQRCode
updateQRCode(item, id, updates, writeFails) ==
  LET codes == loadQRCodes(item)
      updatedCodes == [i \in 1..Len(codes) |->
                        IF codes[i].id = id THEN Merge(codes[i], updates)
                        ELSE codes[i]]
  IN  [item |-> saveQRCodes(item, updatedCodes, writeFails), ret |-> updatedCodes]

\* a deleteQRCode that removes the first record, whatever its id
deleteQRCodeHead(item, id, writeFails) ==
  LET codes == loadQRCodes(item)
      updatedCodes == IF codes = <<>> THEN <<>> ELSE Tail(codes)
  IN  [item |-> saveQRCodes(item, updatedCodes, writeFails), ret |-> updatedCodes]

\* Storage.deleteQRCode
deleteQRCode(item, id, writeFails) ==
  LET codes == loadQRCodes(item)
      keep(code) == code.id # id
      updatedCodes == SelectSeq(codes, keep)
  IN  [item |-> saveQRCodes(item, updatedCodes, writeFails), ret |-> updatedCodes]

\* Storage.clearQRCodes: the item stored afterwards; a throw of removeItem is
\* logged and the item stays as it was
clearQRCodes(item, removeFails) == IF removeFails THEN item ELSE NoItem

\* no file was downloaded, picked or read
NoFile == [kind |-> "none", items |-> <<>>]

\* Storage.exportQRCodes: the content of the file it downloads, or NoFile when
\* there is nothing to export
exportQRCodes(item) ==
  LET codes == loadQRCodes(item)
  IN  IF Len(codes) = 0 THEN NoFile ELSE JSONstringify(codes)

\* a filter that keeps every imported record
FilterKeepAll(codes, existingValues) == codes

\* Array.prototype.filter(code => !existingValues.has(code.value))
RECURSIVE FilterNew(_, _)
FilterNew(codes, existingValues) ==
  IF codes = <<>> THEN <<>>
  ELSE IF Head(codes).value \in existingValues
       THEN FilterNew(Tail(codes), existingValues)
       ELSE <<Head(codes)>> \o FilterNew(Tail(codes), existingValues)

\* the try block of Storage.importQRCodes: JSON.parse throws on a text that is
\* no JSON, filter is no function of a value that is no array, and code.value
\* throws on a null entry
importQRCodesTry(item, jsonData, writeFails) ==
  LET parsedData == JSONparse(jsonData)
      existingCodes == loadQRCodes(item)
  IN  IF \/ parsedData.threw
         \/ ~parsedData.isArray
         \/ \E i \in 1..Len(parsedData.items) : parsedData.items[i].null
      THEN [item |-> item, ret |-> <<>>, threw |-> TRUE]
      ELSE LET importedCodes == Records(parsedData.items)
               existingValues == {existingCodes[i].value : i \in 1..Len(existingCodes)}
               uniqueImportedCodes == FilterNew(importedCodes, existingValues)
               combinedCodes == existingCodes \o uniqueImportedCodes
           IN  [item |-> saveQRCodes(item, combinedCodes, writeFails),
                ret |-> combinedCodes, threw |-> FALSE]

\* an import without the catch block
importQRCodesUncaught(item, jsonData, writeFails) ==
  importQRCodesTry(item, jsonData, writeFails)

\* an import that puts the imported records before the stored ones
importQRCodesPrepend(item, jsonData, writeFails) ==
  LET r == importQRCodesTry(item, jsonData, writeFails)
      existingCodes == loadQRCodes(item)
      added == SubSeq(r.ret, Len(existingCodes) + 1, Len(r.ret))
  IN  IF r.threw THEN [item |-> item, ret |-> existingCodes, threw |-> FALSE]
      ELSE [item |-> saveQRCodes(item, added \o existingCodes, writeFails),
            ret |-> added \o existingCodes, threw |-> FALSE]

\* Storage.importQRCodes: the catch alerts and returns the stored list
importQRCodes(item, jsonData, writeFails) ==
  LET r == importQRCodesTry(item, jsonData, writeFails)
  IN  IF r.threw THEN [item |-> item, ret |-> loadQRCodes(item), threw |-> FALSE]
      ELSE r

\* the last call of Storage, before any call
NoCall == [op |-> "none", code |-> MkCode("", "", ""), id |-> "", updates |-> {},
           json |-> NoFile, exported |-> <<>>, fromFile |-> FALSE,
           before |-> <<>>, shown |-> <<>>, text |-> "", wrote |-> FALSE,
           threw |-> FALSE]

\* no export was downloaded; an export is its text and, as history, the list
\* that was stored when it was made
NoExport == [text |-> NoFile, of |-> <<>>]

\* a browser in which nothing was stored yet
StoreIdle ==
  /\ stored = NoItem
  /\ returned = <<>>
  /\ lastCall = NoCall
  /\ writeFaults = 0
  /\ file = NoExport

\* useState(null): no record is in edit mode
NoId == "null"

\* App before it is mounted
AppIdle ==
  /\ qrCodes = <<>>
  /\ editingId = NoId
  /\ editDescription = ""
  /\ isImporting = FALSE
  /\ reading = NoFile

Init ==
  /\ now \in StartInstants
  /\ urlImpl \in UrlImpls
  /\ DisplayIdle
  /\ UtilIdle
  /\ StoreIdle
  /\ AppIdle

\* the instance is mounted with value v: fresh state, then the effect
Mount(v, gap, digestFails) ==
  /\ ~mounted
  /\ changes < MaxChanges
  /\ changes' = changes + 1
  /\ mounted' = TRUE
  /\ value' = v
  /\ Effect(v, Null, InitialTimeRemaining, timers, gap, digestFails)
  /\ last' = [NoOp EXCEPT !.op = "mount"]
  /\ UNCHANGED <<lateTicks, utilVars, storeVars, appVars>>

\* the value prop changes to v: the cleanup of the last effect, then the effect
SetValue(v, gap, digestFails) ==
  /\ mounted
  /\ v # value
  /\ changes < MaxChanges
  /\ changes' = changes + 1
  /\ value' = v
  /\ Effect(v, totpCode, timeRemaining, RunCleanup(timers, cleanup), gap, digestFails)
  /\ last' = [NoOp EXCEPT !.op = "setValue", !.before = totpCode,
                          !.early = \E t \in timers : t.id = cleanup /\ t.fired = 0]
  /\ UNCHANGED <<mounted, lateTicks, utilVars, storeVars, appVars>>

\* the instance is torn down: the cleanup of the last effect; its state is gone
Unmount ==
  /\ mounted
  /\ mounted' = FALSE
  /\ value' = NoValue
  /\ totpCode' = Null
  /\ timeRemaining' = InitialTimeRemaining
  /\ timers' = RunCleanup(timers, cleanup)
  /\ cleanup' = NoCleanup
  /\ last' = [NoOp EXCEPT !.op = "unmount",
                          !.early = \E t \in timers : t.id = cleanup /\ t.fired = 0]
  /\ codeReadAt' = 0
  /\ remReadAt' = 0
  /\ UNCHANGED <<now, nextId, changes, lateTicks, faults, utilVars, storeVars, appVars>>

\* The setInterval callback of registration t runs, late ms after it is due.  A
\* state setter of an instance that is no longer mounted does nothing.
Tick(t, late, gap, digestFails) ==
  LET fire == Max(now, t.due) + late
      newTimeRemaining == getTimeRemaining(fire)
      regen == IsNewWindow(newTimeRemaining)
      readAt == fire + gap
      newCode == generateTotpCode(t.secret, FALSE, readAt, digestFails)
  IN  /\ ~regen => (gap = 0 /\ ~digestFails)
      /\ timeRemaining' = IF mounted THEN newTimeRemaining ELSE timeRemaining
      /\ remReadAt' = IF mounted THEN fire ELSE remReadAt
      /\ totpCode' = IF mounted /\ regen THEN CodeOrError(newCode) ELSE totpCode
      /\ codeReadAt' = IF mounted /\ regen THEN readAt ELSE codeReadAt
      /\ now' = readAt
      /\ timers' = (timers \ {t}) \cup
                     {[t EXCEPT !.due = fire + Interval, !.fired = @ + 1,
                                !.regens = @ + (IF regen THEN 1 ELSE 0)]}
      /\ last' = [op |-> "tick", secret |-> t.secret, regen |-> regen,
                  failed |-> regen /\ newCode = Null, before |-> totpCode,
                  remBefore |-> timeRemaining, early |-> FALSE]
      /\ UNCHANGED <<mounted, value, nextId, cleanup, changes, utilVars, storeVars, appVars>>

\* the digest step throws, within the model's budget of failures
Fault(digestFails) ==
  /\ digestFails => faults < MaxFaults
  /\ faults' = faults + (IF digestFails THEN 1 ELSE 0)

\* a tick that fires when it is due
TickOnTime ==
  \E t \in timers, gap \in ReadGaps, digestFails \in BOOLEAN :
    /\ Tick(t, 0, gap, digestFails)
    /\ Fault(digestFails)
    /\ now' <= MaxNow
    /\ UNCHANGED lateTicks

\* a tick that fires late: timer jitter, a busy main thread, a throttled tab
TickLate ==
  \E t \in timers, late \in Lateness, gap \in ReadGaps, digestFails \in BOOLEAN :
    /\ lateTicks < MaxLate
    /\ lateTicks' = lateTicks + 1
    /\ Tick(t, late, gap, digestFails)
    /\ Fault(digestFails)
    /\ now' <= MaxNow

\* a second passes while no timer is registered
Pass ==
  /\ timers = {}
  /\ now + Interval <= MaxNow
  /\ now' = now + Interval
  /\ last' = [NoOp EXCEPT !.op = "pass"]
  /\ UNCHANGED <<mounted, value, totpCode, timeRemaining, timers, nextId, cleanup,
                 changes, lateTicks, faults, codeReadAt, remReadAt, utilVars, storeVars, appVars>>

DoMount ==
  \E v \in DisplayValues, gap \in ReadGaps, digestFails \in BOOLEAN :
    /\ Mount(v, gap, digestFails)
    /\ Fault(digestFails /\ parseTotpUri(v).ok)
    /\ ~parseTotpUri(v).ok => (gap = 0 /\ ~digestFails)
    /\ now' <= MaxNow

DoSetValue ==
  \E v \in DisplayValues, gap \in ReadGaps, digestFails \in BOOLEAN :
    /\ SetValue(v, gap, digestFails)
    /\ Fault(digestFails /\ parseTotpUri(v).ok)
    /\ ~parseTotpUri(v).ok => (gap = 0 /\ ~digestFails)
    /\ now' <= MaxNow

\* the one mount of a display that then lives on
MountOnce ==
  /\ nextId = 1
  /\ DoMount

\* an on-time tick of the long-lived display
TickLong ==
  \E t \in timers, gap \in ReadGaps, digestFails \in BOOLEAN :
    /\ Tick(t, 0, gap, digestFails)
    /\ Fault(digestFails)
    /\ now' <= MaxNowLong
    /\ UNCHANGED lateTicks

NextOnTime == DoMount \/ DoSetValue \/ Unmount \/ TickOnTime \/ Pass

Next == NextOnTime \/ TickLate

NextLong == MountOnce \/ TickLong

\* one display, mounted once, whose ticks all fire when they are due
SpecLong == Init /\ [][NextLong]_vars

\* every tick fires exactly when it is due
SpecOnTime == Init /\ [][NextOnTime]_vars

\* ticks may fire late
Spec == Init /\ [][Next]_vars

(************************ callers of utils/totp ****************************)
\* the instants a caller starts at: the epoch, and one millisecond short of the
\* first step boundary
ProbeStarts == {0, 29999}
\* the time from one call of generateTotpCode to the next, in ms
Delays == {0, 1, 999, 29000}
\* the secrets a caller passes: one the decoder accepts and one it rejects
CallSecrets == {<<"J","B">>, <<"J","1">>}

InitTotp ==
  /\ now \in ProbeStarts
  /\ urlImpl = "whatwg"
  /\ DisplayIdle
  /\ UtilIdle
  /\ StoreIdle
  /\ AppIdle

\* generateTotpCode(secret, next) is called d ms after the last call and reads
\* the clock once
CallGenerate(secret, next, d, digestFails) ==
  /\ Len(calls) < MaxCalls
  /\ digestFails => keyDecoder(secret).ok
  /\ Fault(digestFails)
  /\ now' = now + d
  /\ calls' = Append(calls,
                [secret |-> secret, next |-> next, t |-> now + d,
                 digestFails |-> digestFails,
                 res |-> generateTotpCode(secret, next, now + d, digestFails)])
  /\ UNCHANGED <<mounted, value, totpCode, timeRemaining, timers, nextId, cleanup,
                 changes, lateTicks, codeReadAt, remReadAt, last,
                 urlImpl, uri, parsed, storeVars, appVars>>

\* generateTotpCode(secret)
CallCurrent ==
  \E secret \in CallSecrets, d \in Delays, digestFails \in BOOLEAN :
    CallGenerate(secret, FALSE, d, digestFails)

\* generateTotpCode(secret, true)
CallNext ==
  \E secret \in CallSecrets, d \in Delays, digestFails \in BOOLEAN :
    CallGenerate(secret, TRUE, d, digestFails)

NextTotp == CallCurrent \/ CallNext

\* a caller that derives codes, for the current and for the next window
SpecTotp == InitTotp /\ [][NextTotp]_vars

\* what a string handed to parseTotpUri starts with
ParseHeads == {TotpHead, "otpauth://hotp/", "https://"}

\* the path labels of the strings handed to parseTotpUri: a, Ex:alice, an empty
\* label, Ex%3Aal%40b, and labels with a malformed escape at the end
\* (abcdefg%), at the start (%zzabcde) and cut short (abcd%4), and abcd%41x
ParseLabels ==
  {<<"a">>,
   <<"E","x",":","a","l","i","c","e">>,
   <<>>,
   <<"E","x","%","3","A","a","l","%","4","0","b">>,
   <<"a","b","c","d","e","f","g","%">>,
   <<"%","z","z","a","b","c","d","e">>,
   <<"a","b","c","d","%","4">>,
   <<"a","b","c","d","%","4","1","x">>}

\* the values of their secret parameter: empty, JB, mz, J1 and JB==
ParseSecrets == {<<>>, <<"J","B">>, <<"m","z">>, <<"J","1">>, <<"J","B","=","=">>}

SecretParams == {<<>>} \cup {<<MkParam("secret", s)>> : s \in ParseSecrets}

IssuerParams == {<<>>} \cup {<<MkParam("issuer", i)>> : i \in {<<>>, <<"x">>}}

\* A string that starts with the prefix and that new URL() rejects.  The URL
\* Standard accepts every string that starts with otpauth://totp/; this one
\* stands for a runtime whose URL constructor is stricter.
UriRejected == MkValue(TotpHead, FALSE, <<"a">>, <<MkParam("secret", <<"J","B">>)>>)

\* the strings handed to parseTotpUri
ParseInputs ==
  {MkValue(h, TRUE, l, sp \o ip) :
     h \in ParseHeads, l \in ParseLabels, sp \in SecretParams, ip \in IssuerParams}
  \cup {MkValue(TotpHead, TRUE, l, ip \o sp) :
          l \in ParseLabels, sp \in SecretParams, ip \in IssuerParams}
  \cup {UriRejected, PlainText}

InitParse ==
  /\ now \in ProbeStarts
  /\ urlImpl \in UrlImpls
  /\ DisplayIdle
  /\ uri \in ParseInputs
  /\ parsed = NotParsed
  /\ calls = <<>>
  /\ StoreIdle
  /\ AppIdle

\* parseTotpUri(uri) is called and returns
ParseCall ==
  /\ ~parsed.done
  /\ parsed' = [done |-> TRUE, res |-> parseTotpUri(uri)]
  /\ UNCHANGED <<now, mounted, value, totpCode, timeRemaining, timers, nextId,
                 cleanup, changes, lateTicks, faults, codeReadAt, remReadAt, last,
                 urlImpl, uri, calls, storeVars, appVars>>

NextParse == ParseCall

\* a caller that parses one string
SpecParse == InitParse /\ [][NextParse]_vars

(*************************** callers of Storage ****************************)
\* the ids and the values of the records a caller adds
CodeIds == {"1", "2"}
CodeValues == {"v", "w"}

\* the records a caller adds: a scan gives a record an empty description
NewCodes == {MkCode(i, v, "") : i \in CodeIds, v \in CodeValues}

\* the updates a caller passes: a description, a value with a description, nothing
Updates == {{<<"description", "d">>},
            {<<"value", "w">>, <<"description", "d">>},
            {}}

InitStorage ==
  /\ now \in ProbeStarts
  /\ urlImpl = "whatwg"
  /\ DisplayIdle
  /\ UtilIdle
  /\ StoreIdle
  /\ AppIdle

\* setItem throws, within the model's budget of failures
WriteFault(writeFails) ==
  /\ writeFails => writeFaults < MaxWriteFaults
  /\ writeFaults' = writeFaults + (IF writeFails THEN 1 ELSE 0)

\* what a call of Storage leaves alone
StorageFrame ==
  UNCHANGED <<now, mounted, value, totpCode, timeRemaining, timers, nextId,
              cleanup, changes, lateTicks, faults, codeReadAt, remReadAt, last,
              utilVars, appVars>>

\* Storage.addQRCode(code)
AddQRCode ==
  \E code \in NewCodes, writeFails \in BOOLEAN :
    LET r == addQRCode(stored, code, writeFails)
    IN  /\ Len(loadQRCodes(stored)) < MaxStored
        /\ WriteFault(writeFails)
        /\ stored' = r.item
        /\ returned' = r.ret
        /\ lastCall' = [NoCall EXCEPT !.op = "add", !.code = code,
                                      !.before = loadQRCodes(stored),
                                      !.wrote = ~writeFails]
        /\ file' = file
        /\ StorageFrame

\* Storage.updateQRCode(id, updates)
UpdateQRCode ==
  \E id \in CodeIds, updates \in Updates, writeFails \in BOOLEAN :
    LET r == updateQRCode(stored, id, updates, writeFails)
    IN  /\ WriteFault(writeFails)
        /\ stored' = r.item
        /\ returned' = r.ret
        /\ lastCall' = [NoCall EXCEPT !.op = "update", !.id = id,
                                      !.updates = updates,
                                      !.before = loadQRCodes(stored),
                                      !.wrote = ~writeFails]
        /\ file' = file
        /\ StorageFrame

\* Storage.deleteQRCode(id)
DeleteQRCode ==
  \E id \in CodeIds, writeFails \in BOOLEAN :
    LET r == deleteQRCode(stored, id, writeFails)
    IN  /\ WriteFault(writeFails)
        /\ stored' = r.item
        /\ returned' = r.ret
        /\ lastCall' = [NoCall EXCEPT !.op = "delete", !.id = id,
                                      !.before = loadQRCodes(stored),
                                      !.wrote = ~writeFails]
        /\ file' = file
        /\ StorageFrame

NextStorage == AddQRCode \/ UpdateQRCode \/ DeleteQRCode

\* a caller that adds, updates and deletes records
SpecStorage == InitStorage /\ [][NextStorage]_vars

(********************* callers of export and import ************************)
\* the records of the arrays a caller imports: two of them with the same value,
\* one of them without a description
ImportCodes == {MkCode("1", "v", ""), MkCode("2", "v", Undefined),
                MkCode("3", "x", "d")}

\* the entries of those arrays
ImportEntries == {JsonObject(ToJson(code)) : code \in ImportCodes} \cup {JsonNull}

\* the arrays of at most n entries
ArraysUpTo(n) ==
  UNION {[1..k -> ImportEntries] : k \in 0..n}

\* the texts a caller imports: arrays, a JSON value that is no array, no JSON
ImportInputs ==
  {[kind |-> "array", items |-> a] : a \in ArraysUpTo(MaxImported)}
    \cup {ObjectJson, InvalidJson}

\* Storage.importQRCodes(jsonData), of a text that is no export of this store
ImportQRCodes ==
  \E jsonData \in ImportInputs, writeFails \in BOOLEAN :
    LET r == importQRCodes(stored, jsonData, writeFails)
    IN  /\ file = NoExport
        /\ Len(loadQRCodes(stored)) + Len(jsonData.items) <= MaxStored
        /\ WriteFault(writeFails)
        /\ stored' = r.item
        /\ returned' = r.ret
        /\ lastCall' = [NoCall EXCEPT !.op = "import", !.json = jsonData,
                                      !.before = loadQRCodes(stored),
                                      !.wrote = ~writeFails, !.threw = r.threw]
        /\ file' = file
        /\ StorageFrame

\* Storage.exportQRCodes(): the browser downloads the file
ExportQRCodes ==
  /\ file = NoExport
  /\ file' = IF exportQRCodes(stored) = NoFile THEN NoExport
             ELSE [text |-> exportQRCodes(stored), of |-> loadQRCodes(stored)]
  /\ lastCall' = [NoCall EXCEPT !.op = "export", !.before = loadQRCodes(stored)]
  /\ UNCHANGED <<stored, returned, writeFaults>>
  /\ StorageFrame

\* Storage.clearQRCodes(); removeItem throws within the budget of failures
ClearQRCodes ==
  \E removeFails \in BOOLEAN :
    /\ WriteFault(removeFails)
    /\ stored' = clearQRCodes(stored, removeFails)
    /\ lastCall' = [NoCall EXCEPT !.op = "clear", !.before = loadQRCodes(stored),
                                  !.wrote = ~removeFails]
    /\ UNCHANGED <<returned, file>>
    /\ StorageFrame

\* Storage.importQRCodes(jsonData) of the exported file, as the next call after
\* the export or after a clear that followed it
ImportExported ==
  \E writeFails \in BOOLEAN :
    LET r == importQRCodes(stored, file.text, writeFails)
    IN  /\ file # NoExport
        /\ WriteFault(writeFails)
        /\ stored' = r.item
        /\ returned' = r.ret
        /\ lastCall' = [NoCall EXCEPT !.op = "import", !.json = file.text,
                                      !.exported = file.of, !.fromFile = TRUE,
                                      !.before = loadQRCodes(stored),
                                      !.wrote = ~writeFails, !.threw = r.threw]
        /\ file' = NoExport
        /\ StorageFrame

NextPort == ImportQRCodes \/ ExportQRCodes \/ ClearQRCodes \/ ImportExported

\* a caller that imports, exports and clears
SpecPort == InitStorage /\ [][NextPort]_vars

(********************************* App *************************************)
\* String.prototype.trim, on the texts a user types into the manual entry
Trim(text) ==
  CASE text = " " -> ""
    [] text = " w" -> "w"
    [] text = "w " -> "w"
    [] OTHER -> text

\* Date.now().toString()
NewId(t) == ToString(t)

\* the record handleScan and handleManualAdd build at instant t
NewCode(t, val) ==
  [id |-> NewId(t), value |-> val, description |-> "", timestamp |-> Num(t),
   format |-> "qr_code"]

\* !x of a string property: undefined and the empty string are falsy
FalsyText(x) == x = Undefined \/ x = ""

\* the filter of handleImport: an entry without id, without value or whose
\* timestamp is no number
InvalidEntry(item) ==
  \/ FalsyText(item.id)
  \/ FalsyText(item.value)
  \/ item.timestamp.type # "number"

\* a file whose content reads as the empty string
EmptyFile == [kind |-> "empty", items |-> <<>>]

\* an onload that hands every file to Storage.importQRCodes
readerOnloadUnchecked(item, shown, fileContent, writeFails) ==
  LET r == importQRCodes(item, IF fileContent = EmptyFile THEN InvalidJson
                               ELSE fileContent, writeFails)
  IN  [item |-> r.item, qrCodes |-> r.ret, failed |-> FALSE, isImporting |-> FALSE]

\* the try and the catch block of reader.onload: an empty result, a text that
\* is no JSON, a value that is no array, a null entry (item.id throws) and an
\* invalid entry all throw into the catch
readerOnloadTry(item, shown, fileContent, writeFails) ==
  LET parsedData == JSONparse(fileContent)
  IN  IF \/ fileContent = EmptyFile
         \/ parsedData.threw
         \/ ~parsedData.isArray
         \/ \E i \in 1..Len(parsedData.items) : parsedData.items[i].null
         \/ \E i \in 1..Len(parsedData.items) :
              InvalidEntry(FromJson(parsedData.items[i].props))
      THEN [item |-> item, qrCodes |-> shown, failed |-> TRUE]
      ELSE LET r == importQRCodes(item, fileContent, writeFails)
           IN  [item |-> r.item, qrCodes |-> r.ret, failed |-> FALSE]

\* reader.onload of handleImport: finally resets the importing flag
readerOnload(item, shown, fileContent, writeFails) ==
  LET r == readerOnloadTry(item, shown, fileContent, writeFails)
  IN  [item |-> r.item, qrCodes |-> r.qrCodes, failed |-> r.failed,
       isImporting |-> FALSE]

\* the texts a user types into the manual entry and into a description
ManualTexts == {" ", " w"}
DescriptionTexts == {"", "d"}

\* what the scanner detects: one code, two codes
Detected == {<<"v">>, <<"w", "v">>}

\* the valid records of the picked files: the same id with different values
ValidFileCodes == {MkCode("1", "x", ""), MkCode("1", "y", "d")}

\* the invalid ones: without id, without value, with a timestamp that is a
\* string, without timestamp
InvalidFileCodes ==
  {MkCode(Undefined, "x", ""), MkCode("1", Undefined, ""),
   [MkCode("1", "x", "") EXCEPT !.timestamp = [type |-> "string", val |-> 1]],
   [MkCode("1", "x", "") EXCEPT !.timestamp = UndefinedNumber]}

ValidFileEntries == {JsonObject(ToJson(code)) : code \in ValidFileCodes}
InvalidFileEntries ==
  {JsonObject(ToJson(code)) : code \in InvalidFileCodes} \cup {JsonNull}

\* the arrays of valid entries, of at most n entries
ValidArrays(n) == UNION {[1..k -> ValidFileEntries] : k \in 0..n}

\* the files a user picks: arrays of valid entries, such arrays with an invalid
\* entry after them, a JSON value that is no array, no JSON, an empty file
Files ==
  {[kind |-> "array", items |-> a] : a \in ValidArrays(MaxImported)}
    \cup {[kind |-> "array", items |-> Append(a, e)] :
           a \in ValidArrays(MaxImported - 1), e \in InvalidFileEntries}
    \cup {ObjectJson, InvalidJson, EmptyFile}

\* App on a browser in which nothing was stored yet, after its mount effect
InitApp ==
  /\ now = 1
  /\ urlImpl = "whatwg"
  /\ DisplayIdle
  /\ UtilIdle
  /\ StoreIdle
  /\ AppIdle

\* what a handler of App leaves alone
AppFrame ==
  UNCHANGED <<mounted, value, totpCode, timeRemaining, timers, nextId,
              cleanup, changes, lateTicks, faults, codeReadAt, remReadAt, last,
              utilVars, returned, file>>

\* the page is loaded again: the state is initial and the mount effect shows
\* the stored list
MountApp ==
  /\ qrCodes' = loadQRCodes(stored)
  /\ editingId' = NoId
  /\ editDescription' = ""
  /\ isImporting' = FALSE
  /\ reading' = NoFile
  /\ lastCall' = [NoCall EXCEPT !.op = "mount", !.before = loadQRCodes(stored),
                                !.shown = qrCodes]
  /\ UNCHANGED <<now, stored, writeFaults>>
  /\ AppFrame

\* handleScan(detectedCodes); the next event is at least a millisecond later
HandleScan ==
  \E detectedCodes \in Detected, writeFails \in BOOLEAN :
    /\ detectedCodes # <<>>
    /\ now < MaxAppNow
    /\ Len(loadQRCodes(stored)) < MaxStored
    /\ Len(qrCodes) < MaxStored
    /\ LET newCode == NewCode(now, Head(detectedCodes))
           r == addQRCode(stored, newCode, writeFails)
       IN  /\ WriteFault(writeFails)
           /\ stored' = r.item
           /\ qrCodes' = r.ret
           /\ lastCall' = [NoCall EXCEPT !.op = "scan", !.code = newCode,
                                         !.before = loadQRCodes(stored),
                                         !.shown = qrCodes, !.wrote = ~writeFails]
    /\ now' = now + 1
    /\ UNCHANGED <<editingId, editDescription, isImporting, reading>>
    /\ AppFrame

\* handleManualAdd(); a blank entry is refused with a toast
HandleManualAdd ==
  \E manualValue \in ManualTexts, writeFails \in BOOLEAN :
    /\ now < MaxAppNow
    /\ Len(loadQRCodes(stored)) < MaxStored
    /\ Len(qrCodes) < MaxStored
    /\ IF Trim(manualValue) = ""
       THEN /\ ~writeFails
            /\ lastCall' = [NoCall EXCEPT !.op = "refused",
                                          !.before = loadQRCodes(stored),
                                          !.shown = qrCodes]
            /\ UNCHANGED <<stored, qrCodes, writeFaults>>
       ELSE LET newCode == NewCode(now, Trim(manualValue))
                r == addQRCode(stored, newCode, writeFails)
            IN  /\ WriteFault(writeFails)
                /\ stored' = r.item
                /\ qrCodes' = r.ret
                /\ lastCall' = [NoCall EXCEPT !.op = "manual", !.code = newCode,
                                              !.before = loadQRCodes(stored),
                                              !.shown = qrCodes,
                                              !.wrote = ~writeFails]
    /\ now' = now + 1
    /\ UNCHANGED <<editingId, editDescription, isImporting, reading>>
    /\ AppFrame

\* the Edit button of a card that is not in edit mode: startEditing(id, description)
StartEditing ==
  \E i \in 1..Len(qrCodes) :
    /\ editingId # qrCodes[i].id
    /\ editingId' = qrCodes[i].id
    /\ editDescription' = qrCodes[i].description
    /\ lastCall' = [NoCall EXCEPT !.op = "start", !.id = qrCodes[i].id,
                                  !.before = loadQRCodes(stored), !.shown = qrCodes]
    /\ UNCHANGED <<now, stored, writeFaults, qrCodes, isImporting, reading>>
    /\ AppFrame

\* the input of a card in edit mode: setEditDescription(e.target.value)
TypeDescription ==
  \E text \in DescriptionTexts, i \in 1..Len(qrCodes) :
    /\ editingId = qrCodes[i].id
    /\ editDescription # text
    /\ editDescription' = text
    /\ lastCall' = [NoCall EXCEPT !.op = "type", !.id = editingId, !.text = text,
                                  !.before = loadQRCodes(stored), !.shown = qrCodes]
    /\ UNCHANGED <<now, stored, writeFaults, qrCodes, editingId, isImporting,
                   reading>>
    /\ AppFrame

\* the Save button of a card in edit mode: saveDescription(code.id)
SaveDescription ==
  \E i \in 1..Len(qrCodes), writeFails \in BOOLEAN :
    LET id == qrCodes[i].id
        r == updateQRCode(stored, id, {<<"description", editDescription>>},
                          writeFails)
    IN  /\ editingId = id
        /\ WriteFault(writeFails)
        /\ stored' = r.item
        /\ qrCodes' = r.ret
        /\ editingId' = NoId
        /\ lastCall' = [NoCall EXCEPT !.op = "save", !.id = id,
                                      !.text = editDescription,
                                      !.before = loadQRCodes(stored),
                                      !.shown = qrCodes, !.wrote = ~writeFails]
        /\ UNCHANGED <<now, editDescription, isImporting, reading>>
        /\ AppFrame

\* the Cancel button of a card in edit mode: cancelEditing()
CancelEditing ==
  \E i \in 1..Len(qrCodes) :
    /\ editingId = qrCodes[i].id
    /\ editingId' = NoId
    /\ lastCall' = [NoCall EXCEPT !.op = "cancel", !.id = editingId,
                                  !.before = loadQRCodes(stored), !.shown = qrCodes]
    /\ UNCHANGED <<now, stored, writeFaults, qrCodes, editDescription, isImporting,
                   reading>>
    /\ AppFrame

\* the Delete button of a card that is not in edit mode: deleteCode(code.id)
DeleteCode ==
  \E i \in 1..Len(qrCodes), writeFails \in BOOLEAN :
    LET id == qrCodes[i].id
        r == deleteQRCode(stored, id, writeFails)
    IN  /\ editingId # id
        /\ WriteFault(writeFails)
        /\ stored' = r.item
        /\ qrCodes' = r.ret
        /\ lastCall' = [NoCall EXCEPT !.op = "delete", !.id = id,
                                      !.before = loadQRCodes(stored),
                                      !.shown = qrCodes, !.wrote = ~writeFails]
        /\ UNCHANGED <<now, editingId, editDescription, isImporting, reading>>
        /\ AppFrame

\* handleImport(file), from the file input that is disabled while importing
HandleImport ==
  \E picked \in Files :
    /\ ~isImporting
    /\ Len(loadQRCodes(stored)) + Len(picked.items) <= MaxStored
    /\ isImporting' = TRUE
    /\ reading' = picked
    /\ lastCall' = [NoCall EXCEPT !.op = "pick", !.json = picked,
                                  !.before = loadQRCodes(stored), !.shown = qrCodes]
    /\ UNCHANGED <<now, stored, writeFaults, qrCodes, editingId, editDescription>>
    /\ AppFrame

\* reader.onload
ReaderOnload ==
  \E writeFails \in BOOLEAN :
    LET r == readerOnload(stored, qrCodes, reading, writeFails)
    IN  /\ isImporting
        /\ reading # NoFile
        /\ Len(loadQRCodes(stored)) + Len(reading.items) <= MaxStored
        /\ r.failed => ~writeFails
        /\ WriteFault(writeFails)
        /\ stored' = r.item
        /\ qrCodes' = r.qrCodes
        /\ isImporting' = r.isImporting
        /\ reading' = NoFile
        /\ lastCall' = [NoCall EXCEPT !.op = "load", !.json = reading,
                                      !.before = loadQRCodes(stored),
                                      !.shown = qrCodes, !.wrote = ~writeFails,
                                      !.threw = r.failed]
        /\ UNCHANGED <<now, editingId, editDescription>>
        /\ AppFrame

\* reader.onerror
ReaderOnerror ==
  /\ isImporting
  /\ reading # NoFile
  /\ isImporting' = FALSE
  /\ reading' = NoFile
  /\ lastCall' = [NoCall EXCEPT !.op = "readerror", !.json = reading,
                                !.before = loadQRCodes(stored), !.shown = qrCodes]
  /\ UNCHANGED <<now, stored, writeFaults, qrCodes, editingId, editDescription>>
  /\ AppFrame

\* what a user does
UserStep ==
  \/ MountApp
  \/ HandleScan
  \/ HandleManualAdd
  \/ StartEditing
  \/ TypeDescription
  \/ SaveDescription
  \/ CancelEditing
  \/ DeleteCode
  \/ HandleImport

NextApp == (~isImporting /\ UserStep) \/ ReaderOnload \/ ReaderOnerror

\* a user of App who waits for a picked file to be read
SpecApp == InitApp /\ [][NextApp]_vars

NextImport == HandleScan \/ HandleImport \/ ReaderOnload \/ ReaderOnerror

\* a user who scans while a picked file is read
SpecImport == InitApp /\ [][NextImport]_vars

(******************************* claims ************************************)
\* the display is active: it shows a value the parser accepts
Active == mounted /\ isTotpUri(value) /\ parseTotpUri(value).ok

\* C1: whenever an active display shows a numeric code, that code is the code of
\* the 30-second step in which the displayed remaining-seconds was computed.
C1_CodeAndCountdownSameStep ==
  (Active /\ totpCode.kind = "digits")
    => totpCode.counter = TimeStep(remReadAt)

\* C2: with on-time ticks, a registration has re-derived the code exactly as many
\* times as step boundaries lie between its registration and its last tick; a
\* tick re-derives exactly when its remaining-seconds is 30, coming from 1, and
\* every other tick counts the remaining-seconds down by one.
C2_OneDerivationPerWindow ==
  /\ \A t \in timers :
       t.regens = TimeStep(t.due - Interval) - TimeStep(t.regAt)
  /\ last.op = "tick" =>
       /\ last.regen <=> timeRemaining = Period
       /\ last.regen => last.remBefore = 1
       /\ ~last.regen => timeRemaining = last.remBefore - 1

\* C2 witness: a display has ticked across two step boundaries and re-derived twice
C2_Witness ==
  \E t \in timers : t.regens = 2 /\ last.op = "tick" /\ last.regen
                    /\ last.remBefore = 1 /\ timeRemaining = Period

\* C3: after any tick of an active display, a numeric code on display is the code
\* of the time step that is current at that tick.
C3_CodeIsCurrentAfterTick ==
  (last.op = "tick" /\ Active /\ totpCode.kind = "digits")
    => totpCode.counter = TimeStep(remReadAt)

\* C4: the instance holds exactly one live timer registration while it shows a
\* value the parser accepts and none otherwise, and the registration it holds is
\* the one its cleanup releases.
C4_OneTimerIffActive ==
  /\ Cardinality(timers) = (IF Active THEN 1 ELSE 0)
  /\ \A t \in timers : t.id = cleanup
  /\ timers = {} => cleanup = NoCleanup

\* C4 witness: the value was replaced before the first tick of the old timer; the
\* old registration is released and one new registration is live
C4_Witness ==
  /\ last.op = "setValue" /\ last.early
  /\ Cardinality(timers) = 1
  /\ \A t \in timers : t.id = nextId - 1 /\ t.id > 1

\* C5: every live registration closes over the secret of the value on display, and
\* the last tick that fired used the secret of the value that was on display.
C5_NoOrphanTick ==
  /\ \A t \in timers : Active /\ t.secret = parseTotpUri(value).secret
  /\ last.op = "tick" => (Active /\ last.secret = parseTotpUri(value).secret)

\* C5 witness: after a value change released an older registration, a tick of the
\* new registration fired
C5_Witness ==
  /\ last.op = "tick"
  /\ nextId > 2
  /\ \E t \in timers : t.id = nextId - 1 /\ t.fired > 0

\* C6: while the value on display is one the parser rejects, no code and no
\* countdown are shown and no timer is registered.
C6_UnparseableIsInert ==
  (mounted /\ ~parseTotpUri(value).ok) => (~ShowsCode /\ timers = {})

\* C7: a numeric code on display was derived from the secret of the value on display.
C7_NoCodeOfPreviousValue ==
  (ShowsCode /\ totpCode.kind = "digits")
    => /\ parseTotpUri(value).ok
       /\ totpCode.key = keyDecoder(parseTotpUri(value).secret).key

\* C8: before the first tick of a registration fires, the display already holds a
\* code derived on activation (numeric for the value's secret, or the error
\* marker) and the remaining-seconds computed on activation.
C8_InitialCodeBeforeFirstTick ==
  \A t \in timers : t.fired = 0 =>
    /\ \/ totpCode = ErrorMarker
       \/ totpCode = Digits(keyDecoder(t.secret).key, TimeStep(codeReadAt))
    /\ codeReadAt <= t.regAt
    /\ timeRemaining = getTimeRemaining(t.regAt)

\* C8 witness: a freshly activated display shows a numeric code and a countdown
\* and its timer has not fired yet
C8_Witness ==
  /\ Active /\ ShowsCode /\ totpCode.kind = "digits"
  /\ \E t \in timers : t.fired = 0 /\ now = t.regAt

\* C9: a window-boundary tick whose derivation fails leaves the error marker on
\* display, one whose derivation succeeds leaves a numeric code, and in both cases
\* the timer stays registered and is due one interval later.
C9_ErrorAtBoundary ==
  (last.op = "tick" /\ last.regen) =>
    /\ last.failed => totpCode = ErrorMarker
    /\ ~last.failed => totpCode.kind = "digits"
    /\ timers # {}
    /\ \A t \in timers : t.due = remReadAt + Interval

\* C9 witness: the first boundary tick failed and left the error marker, and the
\* second boundary tick replaced it with a numeric code
C9_Witness ==
  /\ last.op = "tick" /\ last.regen /\ ~last.failed
  /\ last.before = ErrorMarker
  /\ totpCode.kind = "digits"
  /\ \E t \in timers : t.regens = 2

\* secrets the decoder rejects: the one the model displays, and secrets with the
\* digits 8, 0 and 1 and with a character that is no letter or digit
RejectedSamples == {<<"J","1">>, <<"8">>, <<"A","0">>, <<"1","B">>, <<"a","!">>}

\* C10: for a secret the Base32 decoder rejects, generateTotpCode returns null at
\* every instant a display can be mounted at, and a display of such a secret
\* shows the error marker while its timer stays registered and its countdown
\* follows the clock.
C10_RejectedSecretShowsError ==
  /\ ~mounted =>
       \A secret \in RejectedSamples, next \in BOOLEAN, digestFails \in BOOLEAN :
         generateTotpCode(secret, next, now, digestFails) = Null
  /\ (Active /\ ~keyDecoder(parseTotpUri(value).secret).ok) =>
       /\ totpCode = ErrorMarker
       /\ timers # {}
       /\ timeRemaining = getTimeRemaining(remReadAt)
       /\ \A t \in timers : t.due = remReadAt + Interval

\* C10 witness: a display of a secret with a character outside the alphabet has
\* ticked and shows the error marker with a countdown below 30
C10_Witness ==
  /\ Active /\ ~keyDecoder(parseTotpUri(value).secret).ok
  /\ last.op = "tick"
  /\ totpCode = ErrorMarker
  /\ timeRemaining < Period

\* the positions inside a second the countdown is sampled at, in ms
SubSecond == {0, 1, 500, 999}

CurrentStep(t) == (t \div MsPerSecond) \div Period

\* C12: every call generateTotpCode(secret, true) at an instant t derives the
\* code of step CurrentStep(t) + 1, or returns null when the derivation fails.
C12_NextIsFollowingStep ==
  \A i \in DOMAIN calls :
    LET k == calls[i]
    IN  k.next =>
          IF keyDecoder(k.secret).ok /\ ~k.digestFails
          THEN k.res = Digits(keyDecoder(k.secret).key, CurrentStep(k.t) + 1)
          ELSE k.res = Null

\* C12 witness: the next-window code was derived one millisecond before a step
\* boundary and at the boundary, for steps 1 and 2
C12_Witness ==
  \E i, j \in DOMAIN calls :
    /\ calls[i].next /\ calls[i].t = 29999
    /\ calls[i].res.kind = "digits" /\ calls[i].res.counter = 1
    /\ calls[j].next /\ calls[j].t = 30000
    /\ calls[j].res.kind = "digits" /\ calls[j].res.counter = 2

\* the 30-second-aligned bucket of an instant
Bucket(t) == t \div (Period * MsPerSecond)

\* C13: two calls of generateTotpCode with the same arguments at instants of the
\* same 30-second bucket return the same result, and between two successful
\* calls the step moves on by exactly the number of multiples of 30 s passed.
C13_TimeOnlyThroughStep ==
  \A i, j \in DOMAIN calls :
    LET a == calls[i]
        b == calls[j]
    IN  (a.secret = b.secret /\ a.next = b.next /\ a.digestFails = b.digestFails) =>
          /\ Bucket(a.t) = Bucket(b.t) => a.res = b.res
          /\ (a.res.kind = "digits" /\ b.res.kind = "digits") =>
               b.res.counter - a.res.counter = Bucket(b.t) - Bucket(a.t)

\* C13 witness: the same secret gave one code at 29000 ms and at 29999 ms, and
\* the code of the next step at 30000 ms
C13_Witness ==
  /\ Len(calls) = 3
  /\ calls[1].t = 29000 /\ calls[2].t = 29999 /\ calls[3].t = 30000
  /\ \A i \in 1..3 : ~calls[i].next /\ calls[i].res.kind = "digits"
  /\ calls[1].res = calls[2].res
  /\ calls[3].res.counter = calls[2].res.counter + 1

\* a syntactically valid otpauth://totp/<label>?secret=<s>[&issuer=<i>] URI: the
\* escapes of its label are well formed, its secret is present and not empty,
\* and its issuer, when it has one, is not empty
ValidTotpUri(u) ==
  /\ u.head = TotpHead /\ u.wellFormed
  /\ ~MalformedEscape(u.label)
  /\ ~Falsy(SearchGet(u.params, "secret"))
  /\ SearchGet(u.params, "issuer").present => ~Falsy(SearchGet(u.params, "issuer"))

\* C14: for a valid URI, parseTotpUri returns the secret parameter as secret, the
\* whole URL-decoded path segment after totp/ as label, and the issuer parameter
\* as issuer, unset when the URI has none.
C14_ParsesValidUri ==
  (parsed.done /\ ValidTotpUri(uri)) =>
    /\ parsed.res.ok
    /\ parsed.res.secret = SearchGet(uri.params, "secret").val
    /\ parsed.res.label = DecodeURIComponent(uri.label)
    /\ parsed.res.hasIssuer = SearchGet(uri.params, "issuer").present
    /\ parsed.res.hasIssuer => parsed.res.issuer = SearchGet(uri.params, "issuer").val

\* a non-empty text made only of characters of the Base32 alphabet, in either
\* case, with optional padding at its end
Base32Text(s) ==
  /\ s # <<>>
  /\ \A i \in 1..Len(StripPadding(s)) : ToUpperChar(StripPadding(s)[i]) \in Base32Alphabet

\* C15 as stated: every record the parser produces has a Base32 secret, and a URI
\* whose secret is empty or has a character outside the alphabet fails to parse.
C15_SecretIsBase32 ==
  parsed.done =>
    /\ parsed.res.ok => Base32Text(parsed.res.secret)
    /\ (SearchGet(uri.params, "secret").present
          /\ ~Base32Text(SearchGet(uri.params, "secret").val)) => ~parsed.res.ok

\* C15 amended: every record the parser produces has a non-empty secret, and a
\* URI whose secret is absent or empty fails to parse; the parser does not look
\* at the alphabet, so a URI with any non-empty secret and a label it can decode
\* parses into a record with that secret, and for a secret outside the alphabet
\* the derivation returns null.
C15_SecretIsNotEmpty ==
  parsed.done =>
    /\ parsed.res.ok => parsed.res.secret # <<>>
    /\ Falsy(SearchGet(uri.params, "secret")) => ~parsed.res.ok
    /\ (uri.head = TotpHead /\ uri.wellFormed
          /\ ~MalformedEscape(Substring(Pathname(uri), 7))
          /\ ~Falsy(SearchGet(uri.params, "secret"))) =>
         /\ parsed.res.ok
         /\ parsed.res.secret = SearchGet(uri.params, "secret").val
    /\ (parsed.res.ok /\ ~Base32Text(parsed.res.secret)) =>
         generateTotpCode(parsed.res.secret, FALSE, now, FALSE) = Null

\* C15 witness: a URI whose secret is J1 parsed into a record with the secret J1
C15_Witness ==
  /\ parsed.done /\ parsed.res.ok
  /\ parsed.res.secret = <<"J","1">>
  /\ ~Base32Text(parsed.res.secret)

\* the query string of u has a parameter of that name
HasParam(u, name) == \E i \in DOMAIN u.params : u.params[i].name = name

\* C16: parseTotpUri returns null for a string that does not start with
\* otpauth://totp/, for one that starts with it and has no secret parameter, and
\* for one that starts with it and that new URL() rejects.
C16_FormatErrorIsNull ==
  (/\ parsed.done
   /\ \/ uri.head # TotpHead
      \/ ~HasParam(uri, "secret")
      \/ ~uri.wellFormed)
    => parsed.res = NullTotpData

\* C16 witness: a string with the prefix, an issuer and no secret came back as null
C16_Witness ==
  /\ parsed.done
  /\ uri.head = TotpHead /\ uri.wellFormed
  /\ HasParam(uri, "issuer")
  /\ ~HasParam(uri, "secret")
  /\ parsed.res = NullTotpData

\* C17: whatever string it is given, parseTotpUri returns a record or null and
\* lets no exception escape.
C17_ParserIsTotal ==
  parsed.done =>
    /\ ~parsed.res.threw
    /\ parsed.res.ok \/ parsed.res = NullTotpData

\* C17 witness: decodeURIComponent threw on the malformed escape of a label and
\* the call returned null
C17_Witness ==
  /\ parsed.done
  /\ uri.head = TotpHead /\ uri.wellFormed
  /\ ~Falsy(SearchGet(uri.params, "secret"))
  /\ MalformedEscape(Substring(Pathname(uri), 7))
  /\ parseTotpUriTry(uri).threw
  /\ parsed.res = NullTotpData

\* the list loadQRCodes would return now
StoredList == loadQRCodes(stored)

\* C18 as stated: after addQRCode(code) the stored list is the new record
\* followed by the records stored before, and the returned list is that list.
C18_AddPutsFirst ==
  lastCall.op = "add" =>
    /\ StoredList = <<lastCall.code>> \o lastCall.before
    /\ returned = StoredList

\* C18 amended: addQRCode(code) returns the new record followed by the records
\* stored before; the stored list is that list when setItem succeeds, and is
\* unchanged when setItem throws.
C18_AddPutsFirstWhenSaved ==
  lastCall.op = "add" =>
    /\ returned = <<lastCall.code>> \o lastCall.before
    /\ lastCall.wrote => StoredList = returned
    /\ ~lastCall.wrote => StoredList = lastCall.before

\* C18 witness: a record was added in front of two stored records and saved
C18_Witness ==
  /\ lastCall.op = "add" /\ lastCall.wrote
  /\ Len(lastCall.before) = 2
  /\ lastCall.before[1] # lastCall.before[2]
  /\ Len(StoredList) = 3
  /\ StoredList[1] = lastCall.code

\* the value the updates give field f of record r
Updated(r, updates, f) ==
  IF \E u \in updates : u[1] = f
  THEN (CHOOSE u \in updates : u[1] = f)[2]
  ELSE r[f]

\* record r with the updates merged into it, field by field
WithUpdates(r, updates) ==
  [id |-> Updated(r, updates, "id"), value |-> Updated(r, updates, "value"),
   description |-> Updated(r, updates, "description"),
   timestamp |-> Updated(r, updates, "timestamp"),
   format |-> Updated(r, updates, "format")]

\* C19: after updateQRCode(id, updates) the stored list has as many records as
\* before, in the same positions; a record whose id is not id is unchanged, a
\* record whose id is id was either left alone or given the updates (and given
\* them whenever the write was saved); with no record of that id the stored
\* list is unchanged.
C19_UpdateChangesOnlyId ==
  lastCall.op = "update" =>
    /\ Len(StoredList) = Len(lastCall.before)
    /\ \A i \in 1..Len(lastCall.before) :
         IF lastCall.before[i].id = lastCall.id
         THEN StoredList[i] = (IF lastCall.wrote
                               THEN WithUpdates(lastCall.before[i], lastCall.updates)
                               ELSE lastCall.before[i])
         ELSE StoredList[i] = lastCall.before[i]
    /\ (\A i \in 1..Len(lastCall.before) : lastCall.before[i].id # lastCall.id)
         => StoredList = lastCall.before

\* C19 witness: of three stored records, an update changed those with the id and
\* left one with another id in place
C19_Witness ==
  /\ lastCall.op = "update" /\ lastCall.wrote
  /\ Len(lastCall.before) = 3
  /\ \E i, j \in 1..3 :
       /\ lastCall.before[i].id = lastCall.id
       /\ StoredList[i] # lastCall.before[i]
       /\ lastCall.before[j].id # lastCall.id
       /\ StoredList[j] = lastCall.before[j]

\* the records of a list whose id is not id, in their order
RECURSIVE Without(_, _)
Without(codes, id) ==
  IF codes = <<>> THEN <<>>
  ELSE IF Head(codes).id = id THEN Without(Tail(codes), id)
       ELSE <<Head(codes)>> \o Without(Tail(codes), id)

\* C20 as stated: after deleteQRCode(id) the stored list is the list stored
\* before without the records of that id, the others unchanged and in order.
C20_DeleteRemovesOnlyId ==
  lastCall.op = "delete" =>
    StoredList = Without(lastCall.before, lastCall.id)

\* C20 amended: deleteQRCode(id) returns the list stored before without the
\* records of that id, the others unchanged and in order; the stored list is
\* that list when setItem succeeds, and is unchanged when setItem throws.
C20_DeleteRemovesOnlyIdWhenSaved ==
  lastCall.op = "delete" =>
    /\ returned = Without(lastCall.before, lastCall.id)
    /\ lastCall.wrote => StoredList = returned
    /\ ~lastCall.wrote => StoredList = lastCall.before

\* C20 witness: of three stored records, a delete removed the one with the id
\* from between two records with another id
C20_Witness ==
  /\ lastCall.op = "delete" /\ lastCall.wrote
  /\ Len(lastCall.before) = 3
  /\ lastCall.before[2].id = lastCall.id
  /\ StoredList = <<lastCall.before[1], lastCall.before[3]>>

\* the values of a list of records are pairwise distinct
DistinctValues(codes) ==
  \A i, j \in 1..Len(codes) : codes[i].value = codes[j].value => i = j

\* the last call was an import of an array whose entries are all records
ImportedArray ==
  /\ lastCall.op = "import"
  /\ lastCall.json.kind = "array"
  /\ \A i \in 1..Len(lastCall.json.items) : ~lastCall.json.items[i].null

\* C21: after an import into a store whose records have pairwise distinct
\* values, the stored records still have pairwise distinct values, for any
\* imported array.
C21_ImportKeepsValuesDistinct ==
  (lastCall.op = "import" /\ DistinctValues(lastCall.before))
    => DistinctValues(StoredList)

\* list a is a prefix of list b
IsPrefix(a, b) == Len(a) <= Len(b) /\ SubSeq(b, 1, Len(a)) = a

\* C22: importQRCodes never removes, reorders or modifies a record that was
\* stored before the import: the previously stored list is a prefix of the
\* stored list after the import, for every imported array.
C22_ImportKeepsStoredPrefix ==
  lastCall.op = "import" => IsPrefix(lastCall.before, StoredList)

\* an array with a record of a new value was imported into a store that held records
C22_Witness ==
  /\ ImportedArray
  /\ lastCall.before # <<>>
  /\ Len(StoredList) > Len(lastCall.before)
  /\ IsPrefix(lastCall.before, StoredList)

\* the last call was an import of a text that is no JSON or no JSON array
ImportedNoArray ==
  /\ lastCall.op = "import"
  /\ lastCall.json.kind \in {"invalid", "object"}

\* C23: given data that is not valid JSON or not an array, importQRCodes does
\* not throw, leaves the stored list unchanged, and returns the list that was
\* stored before the call.
C23_BadImportChangesNothing ==
  ImportedNoArray =>
    /\ ~lastCall.threw
    /\ StoredList = lastCall.before
    /\ returned = lastCall.before

\* a text that is no JSON was imported into a store that held records
C23_Witness ==
  /\ ImportedNoArray
  /\ lastCall.json.kind = "invalid"
  /\ lastCall.before # <<>>
  /\ returned = lastCall.before

\* the last call imported the exported file, into the store as it was at the
\* export or into the cleared store
ImportedExport ==
  /\ lastCall.op = "import"
  /\ lastCall.fromFile
  /\ lastCall.before \in {<<>>, lastCall.exported}

\* C24: exporting a non-empty stored list, clearing the store and importing
\* the exported JSON restores exactly the original list, and importing the
\* exported JSON into the unchanged store adds nothing.
C24_ExportImportRestores ==
  ImportedExport => StoredList = lastCall.exported

\* C24, amended: the import returns exactly the original list; the stored list
\* is the original list when localStorage accepts the write, and stays as it
\* was before the import when setItem throws.
C24_ExportImportRestoresWhenSaved ==
  ImportedExport =>
    /\ returned = lastCall.exported
    /\ lastCall.wrote => StoredList = lastCall.exported
    /\ ~lastCall.wrote => StoredList = lastCall.before

\* a list of two records, one without a description text, was exported, the
\* store was cleared and the import restored the list
C24_Witness ==
  /\ ImportedExport
  /\ lastCall.before = <<>>
  /\ Len(lastCall.exported) >= 2
  /\ \E i \in 1..Len(lastCall.exported) : lastCall.exported[i].description = Undefined
  /\ StoredList = lastCall.exported

\* the ids of a list of records are pairwise distinct
DistinctIds(codes) ==
  \A i, j \in 1..Len(codes) : codes[i].id = codes[j].id => i = j

\* C27: after any sequence of scans, manual adds, imports, description saves
\* and deletes, no two stored records have the same id.
C27_StoredIdsDistinct == DistinctIds(StoredList)

\* the entry has property f
HasProperty(entry, f) == f \in DOMAIN entry.props

\* the entry has a timestamp that is a number
NumericTimestamp(entry) ==
  HasProperty(entry, "timestamp") /\ entry.props["timestamp"].type = "number"

\* the content is no JSON, no array, or an array with an entry without an id,
\* without a value or with a timestamp that is no number
RejectedFile(json) ==
  \/ json.kind \in {"invalid", "object"}
  \/ /\ json.kind = "array"
     /\ \E i \in 1..Len(json.items) :
          /\ ~json.items[i].null
          /\ \/ ~HasProperty(json.items[i], "id")
             \/ ~HasProperty(json.items[i], "value")
             \/ ~NumericTimestamp(json.items[i])

\* C25: for a file whose content is not valid JSON, is not an array, or holds
\* an entry without an id, without a value or with a non-numeric timestamp, the
\* stored list and the displayed list are unchanged; and after every outcome of
\* the read (success, validation failure, read error) the importing flag is false.
C25_RejectedFileChangesNothing ==
  /\ (lastCall.op = "load" /\ RejectedFile(lastCall.json)) =>
       (StoredList = lastCall.before /\ qrCodes = lastCall.shown)
  /\ lastCall.op \in {"load", "readerror"} => ~isImporting

\* an array with a valid entry and an entry without an id was read while
\* records were stored and shown
C25_Witness ==
  /\ lastCall.op = "load"
  /\ lastCall.json.kind = "array"
  /\ Len(lastCall.json.items) = 2
  /\ ~lastCall.json.items[1].null
  /\ HasProperty(lastCall.json.items[1], "id")
  /\ HasProperty(lastCall.json.items[1], "value")
  /\ NumericTimestamp(lastCall.json.items[1])
  /\ ~lastCall.json.items[2].null
  /\ ~HasProperty(lastCall.json.items[2], "id")
  /\ lastCall.before # <<>>
  /\ qrCodes = lastCall.before
  /\ ~isImporting

\* C26: startEditing, typing and cancelEditing never modify a stored record;
\* saveDescription changes the description of the one record startEditing was
\* last invoked on, and no other record or field; edit mode is off after save
\* or cancel.
C26_SaveChangesOneDescription ==
  /\ lastCall.op \in {"start", "type", "cancel"} => StoredList = lastCall.before
  /\ lastCall.op = "start" => editingId = lastCall.id
  /\ lastCall.op \in {"save", "cancel"} => editingId = NoId
  /\ lastCall.op = "save" =>
       /\ Len(StoredList) = Len(lastCall.before)
       /\ \/ StoredList = lastCall.before
          \/ \E k \in 1..Len(lastCall.before) :
               /\ lastCall.before[k].id = lastCall.id
               /\ StoredList[k] = [lastCall.before[k] EXCEPT !.description = lastCall.text]
               /\ \A i \in 1..Len(lastCall.before) :
                    i # k => StoredList[i] = lastCall.before[i]

====
